---- MODULE Spec2Model ----
(***************************************************************************)
(* A model of packages/lexical-markdown/src/MarkdownConvertor.ts: the      *)
(* MarkdownConvertorState object (result, delimiter, pending close, blank  *)
(* line suppression, inline buffer), its write/flush primitives, the       *)
(* inline format reconciler flushInline, the conversion dispatcher         *)
(* convertBlock and the built-in conversions.                              *)
(*                                                                         *)
(* A JavaScript string is modelled as a sequence of one-character strings, *)
(* so that "ends with a newline", "trim trailing whitespace" and "split on *)
(* newline" are computed on characters as the code computes them.          *)
(***************************************************************************)
EXTENDS Integers, Sequences, FiniteSets, TLC

VARIABLES
    result,               \* _result: the text accumulated so far
    delim,                \* _delim: the current line prefix
    closed,               \* _closed: "false", or the key of the node pending close
    stopNewline,          \* _stopNewline: blank-line suppression
    inlineBuffer,         \* _inlineBuffer: the buffered inline runs
    conversionCollection, \* _conversionCollection: the registered maps, in order
    frames,               \* the active wrapBlock calls: their saved prevDelim and node
    returned,             \* the calls of the generated function: tree and string returned
    op,                   \* the operation performed last (name and argument)
    pre                   \* the fields of the object before that operation

vars == <<result, delim, closed, stopNewline, inlineBuffer,
          conversionCollection, frames, returned, op, pre>>

----------------------------------------------------------------------------
(* Bounds of the model.                                                    *)

\* The inline buffer holds at most MaxRuns runs before it is flushed.
MaxRuns == 3

\* An operation that appends to the result is taken while the result is
\* shorter than MaxResult.
MaxResult == 3

\* Inside wrapBlock, an operation that appends to the result is taken
\* while the result is shorter than MaxWrapped.
MaxWrapped == 7

\* At most MaxDepth calls of wrapBlock are active at a time.
MaxDepth == 2

\* At most MaxMaps extension maps are registered after the built-in one.
MaxMaps == 2

\* The text conversion is run on a buffer of fewer than MaxLeaves runs.
MaxLeaves == 1

\* A conversion is started with fewer than MaxStale runs left in the buffer.
MaxStale == 1

\* The generated function is called at most MaxCalls times.
MaxCalls == 3

\* The i-th run pushed carries the i-th letter as its text.
Letters == <<"a", "b", "c", "d", "e">>

----------------------------------------------------------------------------
(* Strings.                                                                *)

NL == "\n"
SP == " "

\* The value false of _closed: false | LexicalNode.
false == "false"

RECURSIVE Concat(_)
\* Array.prototype.join(''): the concatenation of a sequence of strings.
Concat(ss) == IF ss = <<>> THEN <<>> ELSE Head(ss) \o Concat(Tail(ss))

\* Array.prototype.reverse.
Reverse(s) == [i \in 1..Len(s) |-> s[Len(s) + 1 - i]]

\* A slice that keeps the whole array.
SliceAll(s, from) == s

\* Array.prototype.slice(from): the elements after the first from.
SliceFrom(s, from) == SubSeq(s, from + 1, Len(s))

----------------------------------------------------------------------------
(* InlineFormat: type, openTag, closeTag, htmlInline (FALSE when the       *)
(* property is absent).                                                    *)

Bold == [type |-> "bold", openTag |-> <<"*", "*">>, closeTag |-> <<"*", "*">>,
         htmlInline |-> FALSE]
Italic == [type |-> "italic", openTag |-> <<"*">>, closeTag |-> <<"*">>,
           htmlInline |-> FALSE]
\* The same kind of format written with another pair of tags.
ItalicUnderscore == [type |-> "italic", openTag |-> <<"_">>,
                     closeTag |-> <<"_">>, htmlInline |-> FALSE]
\* The same kind of format written as inline HTML.
ItalicHtml == [type |-> "italic", openTag |-> <<"<", "i", ">">>,
               closeTag |-> <<"<", "/", "i", ">">>, htmlInline |-> TRUE]

InlineFormats == {Bold, Italic, ItalicUnderscore, ItalicHtml}

\* The format lists a run may carry: each kind of format at most once.
FormatLists ==
    {<<>>} \cup {<<f>> : f \in InlineFormats}
           \cup {<<f, g>> : f \in {Bold}, g \in InlineFormats \ {Bold}}
           \cup {<<g, f>> : f \in {Bold}, g \in InlineFormats \ {Bold}}

----------------------------------------------------------------------------
(* The object, as a record of its fields.                                  *)

Cur == [result |-> result, delim |-> delim, closed |-> closed,
        stopNewline |-> stopNewline, inlineBuffer |-> inlineBuffer]

\* The constructor.
NewState == [result |-> <<>>, delim |-> <<>>, closed |-> false,
             stopNewline |-> FALSE, inlineBuffer |-> <<>>]

Becomes(s) ==
    /\ result' = s.result
    /\ delim' = s.delim
    /\ closed' = s.closed
    /\ stopNewline' = s.stopNewline
    /\ inlineBuffer' = s.inlineBuffer

addOutput(s, output) == [s EXCEPT !.result = @ \o output]

\* /(^|\n)$/.test(_result): the result is empty or ends with a newline.
isInBlank(s) ==
    IF s.result = <<>> THEN TRUE ELSE s.result[Len(s.result)] = NL

\* An ensureNewLine that does not look at the end of the result.
ensureNewLineAlways(s) == addOutput(s, <<NL>>)

ensureNewLine(s) == IF isInBlank(s) THEN s ELSE addOutput(s, <<NL>>)

\* The whitespace characters of the model (the class \s of /\s+$/).
isWhitespace(c) == c \in {SP, NL, "\t"}

\* A trim that leaves the delimiter as it is.
trimEndNone(d) == d

RECURSIVE trimEnd(_)
\* delimMin: the delimiter without the whitespace /\s+$/ finds at its end.
trimEnd(d) ==
    IF d # <<>> /\ isWhitespace(d[Len(d)])
    THEN trimEnd(SubSeq(d, 1, Len(d) - 1))
    ELSE d

\* A flushClose that does not look at the suppression flag.
flushCloseUnsuppressed(s, size) ==
    IF s.closed = false
    THEN s
    ELSE LET s1 == IF ~isInBlank(s) THEN addOutput(s, <<NL>>) ELSE s
             s2 == IF size > 1
                   THEN addOutput(s1,
                            Concat([i \in 1..(size - 1) |-> trimEnd(s.delim) \o <<NL>>]))
                   ELSE s1
         IN  [s2 EXCEPT !.closed = false]

flushClose(s, size) ==
    IF s.stopNewline \/ s.closed = false
    THEN s
    ELSE LET s1 == IF ~isInBlank(s) THEN addOutput(s, <<NL>>) ELSE s
             delimMin == trimEnd(s.delim)
             s2 == IF size > 1
                   THEN addOutput(s1,
                            Concat([i \in 1..(size - 1) |-> delimMin \o <<NL>>]))
                   ELSE s1
         IN  [s2 EXCEPT !.closed = false]

write(s, content) ==
    LET s1 == flushClose(s, 2)
        s2 == IF s1.delim # <<>> /\ isInBlank(s1)
              THEN addOutput(s1, s1.delim)
              ELSE s1
    IN  IF content # <<>> THEN addOutput(s2, content) ELSE s2

writeInline(s, inlineText) ==
    [s EXCEPT !.inlineBuffer = Append(@, inlineText)]

----------------------------------------------------------------------------
(* flushInline: the reconciler of the buffered runs.  The text it builds   *)
(* is kept as the sequence of its pieces (a close tag, an open tag, a      *)
(* run's text), in the order the code appends them; the string written is  *)
(* their concatenation.                                                    *)

\* The loop condition of while (common < prevFormats.length && ...).
sameAt(prevFormats, formats, common) ==
    /\ common < Len(prevFormats)
    /\ common < Len(formats)
    /\ prevFormats[common + 1].type = formats[common + 1].type
    /\ prevFormats[common + 1].htmlInline = formats[common + 1].htmlInline

RECURSIVE commonFrom(_, _, _)
commonFrom(prevFormats, formats, common) ==
    IF sameAt(prevFormats, formats, common)
    THEN commonFrom(prevFormats, formats, common + 1)
    ELSE common

\* A reconciler that never shares a tag between two runs.
commonNone(prevFormats, formats) == 0

\* common: the length of the leading part the two format lists share.
commonOf(prevFormats, formats) == commonFrom(prevFormats, formats, 0)

openTags(formats) ==
    [i \in 1..Len(formats) |->
        [kind |-> "open", format |-> formats[i], str |-> formats[i].openTag]]

closeTags(formats) ==
    LET r == Reverse(formats)
    IN  [i \in 1..Len(r) |->
            [kind |-> "close", format |-> r[i], str |-> r[i].closeTag]]

RECURSIVE inlinePieces(_, _, _)
\* The pieces appended from run i on, prevFormats being those of run i-1.
inlinePieces(buffer, i, prevFormats) ==
    IF i > Len(buffer)
    THEN closeTags(prevFormats)
    ELSE LET formats == buffer[i].formats
             common == commonOf(prevFormats, formats)
             toClose == SliceFrom(prevFormats, common)
             toOpen == SliceFrom(formats, common)
         IN  closeTags(toClose) \o openTags(toOpen)
                \o <<[kind |-> "text", run |-> i, str |-> buffer[i].text]>>
                \o inlinePieces(buffer, i + 1, formats)

\* The string flushInline hands to write.
inlineResult(buffer) ==
    LET pieces == inlinePieces(buffer, 1, <<>>)
    IN  Concat([i \in 1..Len(pieces) |-> pieces[i].str])

flushInline(s) ==
    [write(s, inlineResult(s.inlineBuffer)) EXCEPT !.inlineBuffer = <<>>]

----------------------------------------------------------------------------
(* getInlineText, flushInlineText and closeInlineText: the reconciler the  *)
(* link conversion uses (the variant of the object that has a link entry). *)

\* isSameFormat(format)(g)
isSameFormat(format, g) ==
    /\ g.type = format.type
    /\ g.openTag = format.openTag
    /\ g.htmlInline = format.htmlInline

\* hasFormat(inlineText, format) of getInlineText, on the formats of the
\* run (none for the run before the first and that after the last).
runHasFormat(formats, format) ==
    \E i \in 1..Len(formats) : isSameFormat(format, formats[i])

RECURSIVE openingLoop(_, _, _, _)
\* for (const format of inlineText.formats): the formats from the k-th on;
\* acc is unclosedTags and openingTags so far.
openingLoop(formats, k, prevFormats, acc) ==
    IF k > Len(formats)
    THEN acc
    ELSE LET format == formats[k]
             applied == \E j \in 1..(k - 1) : formats[j] = format
         IN  IF ~applied
                /\ (\/ ~runHasFormat(prevFormats, format)
                    \/ ~runHasFormat(acc.unclosedTags, format))
             THEN openingLoop(formats, k + 1, prevFormats,
                      [unclosedTags |-> Append(acc.unclosedTags, format),
                       openingTags |-> acc.openingTags \o format.openTag])
             ELSE openingLoop(formats, k + 1, prevFormats, acc)

\* The close tags of the tags popped from unclosedTags, last one first.
poppedTags(tags) ==
    LET r == Reverse(tags)
    IN  Concat([i \in 1..Len(r) |-> r[i].closeTag])

RECURSIVE closingLoop(_, _, _, _)
\* for (let i = 0; i < unclosedTags.length; i++), from the i-th tag on.
closingLoop(unclosedTags, i, formats, nextFormats) ==
    IF i > Len(unclosedTags)
    THEN [unclosedTags |-> unclosedTags,
          closingTagsBefore |-> <<>>, closingTagsAfter |-> <<>>]
    ELSE LET nodeHasFormat == runHasFormat(formats, unclosedTags[i])
             nextNodeHasFormat == runHasFormat(nextFormats, unclosedTags[i])
             closes == poppedTags(SubSeq(unclosedTags, i, Len(unclosedTags)))
         IN  IF nodeHasFormat /\ nextNodeHasFormat
             THEN closingLoop(unclosedTags, i + 1, formats, nextFormats)
             ELSE [unclosedTags |-> SubSeq(unclosedTags, 1, i - 1),
                   closingTagsBefore |->
                       IF ~nodeHasFormat THEN closes ELSE <<>>,
                   closingTagsAfter |->
                       IF nodeHasFormat THEN closes ELSE <<>>]

\* The formats of the run at index, none when there is no such run.
formatsAt(buffer, index) ==
    IF index \in 1..Len(buffer) THEN buffer[index].formats ELSE <<>>

RECURSIVE processFrom(_, _, _)
\* inlineBuffer.map(process).join(''), from the run at index on.
processFrom(buffer, index, unclosedTags) ==
    IF index > Len(buffer)
    THEN <<>>
    ELSE LET formats == buffer[index].formats
             opened == openingLoop(formats, 1, formatsAt(buffer, index - 1),
                           [unclosedTags |-> unclosedTags, openingTags |-> <<>>])
             closing == closingLoop(opened.unclosedTags, 1, formats,
                                    formatsAt(buffer, index + 1))
         IN  closing.closingTagsBefore \o opened.openingTags
                \o buffer[index].text \o closing.closingTagsAfter
                \o processFrom(buffer, index + 1, closing.unclosedTags)

getInlineText(s) ==
    IF Len(s.inlineBuffer) = 0 THEN <<>> ELSE processFrom(s.inlineBuffer, 1, <<>>)

closeInlineText(s) == [s EXCEPT !.inlineBuffer = <<>>]

\* A closeInlineText that leaves the buffer as it is.
flushInlineTextKeeping(s) == write(s, getInlineText(s))

flushInlineText(s) == closeInlineText(write(s, getInlineText(s)))

closeBlock(s, node) == [s EXCEPT !.closed = node.key]

close(s) == [s EXCEPT !.closed = false]

setStopNewline(s, b) == [s EXCEPT !.stopNewline = b]

setDelim(s, d) == [s EXCEPT !.delim = d]

\* firstDelim || delim
firstOr(firstDelim, d) == IF firstDelim # <<>> THEN firstDelim ELSE d

\* A wrapBlock that sets the delimiter to delim instead of extending it.
wrapBlockEnterReplacing(s, d, firstDelim) ==
    setDelim(write(s, firstOr(firstDelim, d)), d)

\* wrapBlock, up to the call of fn.
wrapBlockEnter(s, d, firstDelim) ==
    LET s1 == write(s, firstOr(firstDelim, d))
    IN  setDelim(s1, s1.delim \o d)

\* wrapBlock, after fn has returned.
wrapBlockExit(s, prevDelim, node) == closeBlock(setDelim(s, prevDelim), node)

----------------------------------------------------------------------------
(* The document tree.  A node is a record: its key (its identity), its     *)
(* type (getType()), its children, and for a text leaf its text and the    *)
(* set of its formats, for a heading its tag.                              *)

Node(key, type, children) ==
    [key |-> key, type |-> type, children |-> children,
     text |-> <<>>, format |-> {}, tag |-> <<>>]

TextNode(key, text, format) ==
    [key |-> key, type |-> "text", children |-> <<>>,
     text |-> text, format |-> format, tag |-> <<>>]

HeadingNode(key, tag, children) ==
    [key |-> key, type |-> "heading", children |-> children,
     text |-> <<>>, format |-> {}, tag |-> tag]

\* A link: its URL, its title (empty when it has none) and, for an
\* auto-link, whether it is unlinked.
LinkNode(key, url, title, children) ==
    [key |-> key, type |-> "link", children |-> children,
     text |-> <<>>, format |-> {}, tag |-> <<>>,
     url |-> url, title |-> title, unlinked |-> FALSE]

isTextNode(node) == node.type \in {"text", "tab"}
isLinkNode(node) == node.type \in {"link", "autolink"}
isAutoLinkNode(node) == node.type = "autolink"
isLineBreakNode(node) == node.type = "linebreak"
isTabNode(node) == node.type = "tab"
isParagraphNode(node) == node.type = "paragraph"
isHeadingNode(node) == node.type = "heading"
isDecoratorNode(node) == node.type = "decorator"
isElementNode(node) ==
    node.type \in {"root", "paragraph", "heading", "quote", "tablecell"}
isBlockElementNode(node) ==
    node.type \in {"root", "paragraph", "heading", "quote", "tablecell"}

hasFormat(node, type) == type \in node.format
\* An isEmpty that takes every paragraph for a non-empty one.
isEmptyNever(node) == FALSE

isEmpty(node) == Len(node.children) = 0

Strikethrough == [type |-> "strikethrough", openTag |-> <<"~", "~">>,
                  closeTag |-> <<"~", "~">>, htmlInline |-> FALSE]
\* The backquote character, which a TLA+ string cannot hold.
BQ == "backquote"
Code == [type |-> "code", openTag |-> <<BQ>>, closeTag |-> <<BQ>>,
         htmlInline |-> FALSE]
Highlight == [type |-> "highlight", openTag |-> <<"<", "m", "a", "r", "k", ">">>,
              closeTag |-> <<"<", "/", "m", "a", "r", "k", ">">>,
              htmlInline |-> TRUE]
Underline == [type |-> "underline", openTag |-> <<"<", "u", ">">>,
              closeTag |-> <<"<", "/", "u", ">">>, htmlInline |-> TRUE]
Subscript == [type |-> "subscript", openTag |-> <<"<", "s", "u", "b", ">">>,
              closeTag |-> <<"<", "/", "s", "u", "b", ">">>, htmlInline |-> TRUE]
Superscript == [type |-> "superscript", openTag |-> <<"<", "s", "u", "p", ">">>,
                closeTag |-> <<"<", "/", "s", "u", "p", ">">>,
                htmlInline |-> TRUE]

\* The formats of the text conversion, in the order of its tests.
TextFormats == <<Bold, Strikethrough, Italic, Code,
                 Highlight, Underline, Subscript, Superscript>>

\* The names hasFormat is asked.
FormatNames == {TextFormats[i].type : i \in 1..Len(TextFormats)}

\* formats: the formats the node has, pushed in that order.
formatsOf(node) ==
    LET has(f) == hasFormat(node, f.type)
    IN  SelectSeq(TextFormats, has)

----------------------------------------------------------------------------
(* Conversion maps.  A map is a record from node types to factories; a     *)
(* factory yields null or a conversion: its name and, when it states one,  *)
(* its priority.  The conversion of an extension writes its mark.    *)

null == [conversion |-> "null"]

defaultMarkdownConversionMap ==
    [text |-> [factory |-> "text"], linebreak |-> [factory |-> "linebreak"],
     tab |-> [factory |-> "tab"], paragraph |-> [factory |-> "paragraph"]]

headingMarkdownConversionMap == [heading |-> [factory |-> "heading"]]

\* The entry for links of the default map that has one.
linkMarkdownConversionMap == [link |-> [factory |-> "link"]]

\* What the factory of an extension returns: null, or the conversion that
\* writes the mark of its map, with a priority of 0..4 or without one.
Marks == {"A", "B"}
ExtensionReturns ==
    {null} \cup {[conversion |-> "mark", mark |-> m] : m \in Marks}
           \cup {[conversion |-> "mark", mark |-> m, priority |-> p] :
                    m \in Marks, p \in 0..4}

\* The extension maps: one entry, for the node type x of the extension or
\* for the built-in type linebreak.
ExtensionMaps ==
    {[x |-> [factory |-> "extension", returns |-> r]] : r \in ExtensionReturns}
    \cup {[linebreak |-> [factory |-> "extension", returns |-> r]] :
                r \in ExtensionReturns}

RECURSIVE insertionOrder(_, _)
\* new Set([...]): the maps in the order given, each kept once.
insertionOrder(maps, seen) ==
    IF maps = <<>>
    THEN seen
    ELSE insertionOrder(Tail(maps),
            IF \E i \in 1..Len(seen) : seen[i] = Head(maps)
            THEN seen
            ELSE Append(seen, Head(maps)))

\* The conversionCollection of createGenerateMarkdownFromNode(...maps).
createGenerateMarkdownFromNode(markdownConversionCollection) ==
    insertionOrder(<<defaultMarkdownConversionMap>> \o markdownConversionCollection,
                   <<>>)

\* conversionMap[node.getType()](node)
getConversion(factory, node) ==
    CASE factory.factory = "tab" ->
            IF ~isTabNode(node) THEN null
            ELSE [conversion |-> "tab", priority |-> 0]
      [] factory.factory \in {"text", "linebreak", "paragraph", "heading",
                               "link"} ->
            [conversion |-> factory.factory, priority |-> 0]
      [] factory.factory = "extension" -> factory.returns

\* priority || 0
priorityOf(conversion) ==
    IF "priority" \in DOMAIN conversion THEN conversion.priority ELSE 0

\* A comparison that never replaces the conversion found first.
replacesNever(prevPriority, priority) == FALSE

\* A comparison that lets the later map win a tie.
replacesOnTie(prevPriority, priority) == prevPriority <= priority

\* if (prevPriority < priority)
replaces(prevPriority, priority) == prevPriority < priority

RECURSIVE findConversion(_, _, _, _)
\* The loop over the registered maps, from map i on.
findConversion(collection, i, node, conversion) ==
    IF i > Len(collection)
    THEN conversion
    ELSE LET conversionMap == collection[i]
         IN  IF node.type \notin DOMAIN conversionMap
             THEN findConversion(collection, i + 1, node, conversion)
             ELSE LET markdownConversion ==
                          getConversion(conversionMap[node.type], node)
                  IN  IF markdownConversion = null
                      THEN findConversion(collection, i + 1, node, conversion)
                      ELSE IF conversion # null
                      THEN IF replaces(priorityOf(conversion),
                                       priorityOf(markdownConversion))
                           THEN findConversion(collection, i + 1, node,
                                               markdownConversion)
                           ELSE findConversion(collection, i + 1, node,
                                               conversion)
                      ELSE findConversion(collection, i + 1, node,
                                          markdownConversion)

\* Number(node.getTag().substring(1))
headingLevel(node) ==
    CASE node.tag[2] = "1" -> 1 [] node.tag[2] = "2" -> 2 [] node.tag[2] = "3" -> 3
      [] node.tag[2] = "4" -> 4 [] node.tag[2] = "5" -> 5 [] node.tag[2] = "6" -> 6

\* String.prototype.repeat
repeat(c, n) == [i \in 1..n |-> c]

\* [text](url "title"), or [text](url) for a link without title.
linkMarkdown(text, url, title) ==
    IF title # <<>>
    THEN <<"[">> \o text \o <<"]", "(">> \o url \o <<SP, "\"">> \o title
            \o <<"\"", ")">>
    ELSE <<"[">> \o text \o <<"]", "(">> \o url \o <<")">>

RECURSIVE convertBlock(_, _, _)
RECURSIVE convertAll(_, _, _)
RECURSIVE convertInline(_, _, _)
RECURSIVE conversionFn(_, _, _, _)

\* children.forEach((node) => this.convertBlock(node))
convertAll(s, children, collection) ==
    IF children = <<>>
    THEN s
    ELSE convertAll(convertBlock(s, Head(children), collection),
                    Tail(children), collection)

\* A convertInline that leaves the runs of the region in the buffer.
convertInlineUnflushed(s, parent, collection) ==
    IF isElementNode(parent)
    THEN convertAll(s, parent.children, collection)
    ELSE convertBlock(s, parent, collection)

convertInline(s, parent, collection) ==
    LET s1 == IF isElementNode(parent)
              THEN convertAll(s, parent.children, collection)
              ELSE convertBlock(s, parent, collection)
    IN  flushInline(s1)

\* The conversion functions of the maps.
conversionFn(conversion, node, s, collection) ==
    CASE conversion.conversion = "text" ->
            IF ~isTextNode(node) THEN s
            ELSE writeInline(s, [formats |-> formatsOf(node), text |-> node.text])
      [] conversion.conversion = "linebreak" ->
            IF ~isLineBreakNode(node) THEN s ELSE ensureNewLine(s)
      [] conversion.conversion = "tab" -> write(s, repeat(SP, 4))
      [] conversion.conversion = "paragraph" ->
            IF ~isParagraphNode(node) THEN s
            ELSE IF s.stopNewline
                 THEN convertInline(s, node, collection)
                 ELSE closeBlock(IF isEmpty(node)
                                 THEN write(s, <<"<", "b", "r", ">">>)
                                 ELSE convertInline(s, node, collection),
                                 node)
      [] conversion.conversion = "heading" ->
            IF ~isHeadingNode(node) THEN s
            ELSE closeBlock(
                    convertInline(
                        write(s, repeat("#", headingLevel(node)) \o <<SP>>),
                        node, collection),
                    node)
      [] conversion.conversion = "link" ->
            IF ~isLinkNode(node) THEN s
            ELSE IF isAutoLinkNode(node) /\ node.unlinked
            THEN convertAll(s, node.children, collection)
            ELSE LET s1 == convertAll(flushInlineText(s), node.children,
                                      collection)
                     text == getInlineText(s1)
                 IN  write(closeInlineText(s1),
                           linkMarkdown(text, node.url, node.title))
      [] conversion.conversion = "mark" -> write(s, <<conversion.mark>>)

\* A convertBlock that writes a placeholder for a node without conversion.
convertBlockFallback(s, node, collection) ==
    LET conversion == findConversion(collection, 1, node, null)
    IN  IF conversion # null
        THEN conversionFn(conversion, node, s, collection)
        ELSE write(s, <<"?">>)

convertBlock(s, node, collection) ==
    LET conversion == findConversion(collection, 1, node, null)
    IN  IF conversion # null
        THEN conversionFn(conversion, node, s, collection)
        ELSE s

convertNode(s, parent, collection) == convertAll(s, parent.children, collection)

RECURSIVE convertCellChildren(_, _, _)
\* The forEach of convertTableCell.
convertCellChildren(s, children, collection) ==
    IF children = <<>>
    THEN s
    ELSE LET child == Head(children)
             s1 == IF isParagraphNode(child)
                   THEN close(convertBlock(s, child, collection))
                   ELSE IF isBlockElementNode(child) \/ isDecoratorNode(child)
                   THEN close(s)
                   ELSE convertInline(s, child, collection)
         IN  convertCellChildren(s1, Tail(children), collection)

convertTableCell(s, node, collection) ==
    setStopNewline(
        convertCellChildren(setStopNewline(s, TRUE), node.children, collection),
        FALSE)

----------------------------------------------------------------------------
(* The nodes a conversion dispatches: the calls of convertBlock it makes,  *)
(* in order, each named by the path of its node (the indices of the        *)
(* children on the way to it) from the node the conversion started at.     *)

RECURSIVE dispatchedBy(_, _, _)
RECURSIVE childrenDispatched(_, _, _, _)

\* A convertInline that dispatches the parent and then its children.
inlineDispatchedTwice(parent, path, collection) ==
    <<path>> \o childrenDispatched(parent, path, 1, collection)

\* convertInline(parent): the children of a parent that has children, the
\* parent itself otherwise.
inlineDispatched(parent, path, collection) ==
    IF isElementNode(parent)
    THEN childrenDispatched(parent, path, 1, collection)
    ELSE dispatchedBy(parent, path, collection)

\* getChildren().forEach((node) => this.convertBlock(node)), from child i.
childrenDispatched(parent, path, i, collection) ==
    IF i > Len(parent.children)
    THEN <<>>
    ELSE dispatchedBy(parent.children[i], Append(path, i), collection)
            \o childrenDispatched(parent, path, i + 1, collection)

\* convertBlock(node): the node, then what its conversion dispatches (for
\* an empty paragraph nothing, on either branch of its conversion).
dispatchedBy(node, path, collection) ==
    LET conversion == findConversion(collection, 1, node, null)
    IN  <<path>> \o
        (IF conversion = null
         THEN <<>>
         ELSE CASE conversion.conversion = "paragraph" ->
                      IF ~isParagraphNode(node) THEN <<>>
                      ELSE inlineDispatched(node, path, collection)
                [] conversion.conversion = "heading" ->
                      IF ~isHeadingNode(node) THEN <<>>
                      ELSE inlineDispatched(node, path, collection)
                [] conversion.conversion = "link" ->
                      IF ~isLinkNode(node) THEN <<>>
                      ELSE childrenDispatched(node, path, 1, collection)
                [] OTHER -> <<>>)

RECURSIVE cellDispatched(_, _, _)
\* convertTableCell(state, node), from child i.
cellDispatched(node, i, collection) ==
    IF i > Len(node.children)
    THEN <<>>
    ELSE LET child == node.children[i]
         IN  (IF isParagraphNode(child)
              THEN dispatchedBy(child, <<i>>, collection)
              ELSE IF isBlockElementNode(child) \/ isDecoratorNode(child)
              THEN <<>>
              ELSE inlineDispatched(child, <<i>>, collection))
                \o cellDispatched(node, i + 1, collection)

----------------------------------------------------------------------------
(* The inputs of the operations.                                           *)

\* flushClose(size): 2 by default, 1 and 3 in convertList.
Sizes == {1, 2, 3}

\* What a caller writes: nothing, or a character.
Contents == {<<>>, <<"x">>}

\* The delimiters a caller sets: none, or that of a quote.
Delims == {<<>>, <<">", SP>>}

\* The delimiters of wrapBlock: that of a quote, and an indentation.
Quote == <<">", SP>>
Indent == <<SP, SP>>
WrapDelims == {Quote, Indent}

\* firstDelim: null, or the bullet of a list item.
FirstDelims == {<<>>, <<"-", SP>>}

TA == TextNode("ta", <<"a">>, {})
TB == TextNode("tb", <<"b">>, {"bold"})
LB == Node("lb", "linebreak", <<>>)
TAB == Node("tab", "tab", <<>>)

\* An empty paragraph, a paragraph of one text, and one of two texts
\* around a line break.
P0 == Node("p0", "paragraph", <<>>)
P1 == Node("p1", "paragraph", <<TA>>)
P2 == Node("p2", "paragraph", <<TA, LB, TB>>)

\* The node of a block that wrapBlock wraps.
Q == Node("q", "quote", <<>>)

\* A node of the type of the extensions.
X == Node("x1", "x", <<>>)

Blocks == {P0, P1, P2}
Inlines == {TA, LB}

\* A table cell of two paragraphs, and one of a paragraph and a text.
Cells == {Node("c1", "tablecell", <<P1, P0>>), Node("c2", "tablecell", <<P2, TA>>)}

----------------------------------------------------------------------------
(* The operations, as actions on the object.                               *)

\* The call made now and the name of the call made before it.
Did(name, arg) ==
    /\ op' = [name |-> name, arg |-> arg, after |-> op.name]
    /\ pre' = Cur

WriteInline ==
    \E formats \in FormatLists :
        /\ Len(inlineBuffer) < MaxRuns
        /\ LET run == [text |-> <<Letters[Len(inlineBuffer) + 1]>>,
                       formats |-> formats]
           IN  Becomes(writeInline(Cur, run)) /\ Did("writeInline", run)
        /\ UNCHANGED <<conversionCollection, frames, returned>>

FlushInline ==
    /\ Becomes(flushInline(Cur))
    /\ Did("flushInline", <<>>)
    /\ UNCHANGED <<conversionCollection, frames, returned>>

\* The result may grow while it is shorter than MaxResult.
MayGrow == Len(result) < MaxResult

EnsureNewLineBelow(limit) ==
    /\ Len(result) < limit
    /\ Becomes(ensureNewLine(Cur))
    /\ Did("ensureNewLine", <<>>)
    /\ UNCHANGED <<conversionCollection, frames, returned>>

EnsureNewLine == EnsureNewLineBelow(MaxResult)

FlushClose ==
    \E size \in Sizes :
        /\ MayGrow
        /\ Becomes(flushClose(Cur, size))
        /\ Did("flushClose", size)
        /\ UNCHANGED <<conversionCollection, frames, returned>>

WriteBelow(limit) ==
    \E content \in Contents :
        /\ Len(result) < limit
        /\ Becomes(write(Cur, content))
        /\ Did("write", content)
        /\ UNCHANGED <<conversionCollection, frames, returned>>

Write == WriteBelow(MaxResult)

CloseBlockOf(nodes) ==
    \E node \in nodes :
        /\ Becomes(closeBlock(Cur, node))
        /\ Did("closeBlock", node)
        /\ UNCHANGED <<conversionCollection, frames, returned>>

CloseBlock == CloseBlockOf(Blocks)

Close ==
    /\ Becomes(close(Cur))
    /\ Did("close", <<>>)
    /\ UNCHANGED <<conversionCollection, frames, returned>>

SetStopNewline ==
    \E b \in BOOLEAN :
        /\ Becomes(setStopNewline(Cur, b))
        /\ Did("setStopNewline", b)
        /\ UNCHANGED <<conversionCollection, frames, returned>>

SetDelim ==
    \E d \in Delims :
        /\ Becomes(setDelim(Cur, d))
        /\ Did("setDelim", d)
        /\ UNCHANGED <<conversionCollection, frames, returned>>

ConvertBlock ==
    \E node \in Blocks \cup Inlines :
        /\ MayGrow
        /\ Len(inlineBuffer) < MaxStale
        /\ Becomes(convertBlock(Cur, node, conversionCollection))
        /\ Did("convertBlock", node)
        /\ UNCHANGED <<conversionCollection, frames, returned>>

\* The index of the character that starts the last line of r, less one.
LineStart(r) ==
    LET nls == {i \in 1..Len(r) : r[i] = NL}
    IN  IF nls = {} THEN 0 ELSE CHOOSE i \in nls : \A j \in nls : j <= i

\* A block starts here: at the start of a line, after a block that is
\* pending close, or right after the marker of the enclosing wrapBlock
\* (convertList calls wrapBlock after flushClose, for a child that is a
\* block).
AtBlockStart ==
    IF isInBlank(Cur) \/ closed # false
    THEN TRUE
    ELSE IF frames = <<>>
    THEN FALSE
    ELSE Len(result) = frames[Len(frames)].bodyStart

\* wrapBlock is called: the marker is written, the delimiter extended, and
\* fn runs (the calls made until WrapBlockExit).
WrapBlockEnter ==
    \E d \in WrapDelims, firstDelim \in FirstDelims, node \in {Q} :
        /\ Len(frames) < MaxDepth
        /\ Len(result) < MaxWrapped
        /\ AtBlockStart
        /\ LET s1 == wrapBlockEnter(Cur, d, firstDelim)
           IN  /\ Becomes(s1)
               /\ frames' = Append(frames,
                      [prevDelim |-> delim, node |-> node, delim |-> d,
                       firstDelim |-> firstDelim,
                       from |-> LineStart(s1.result),
                       bodyStart |-> Len(s1.result)])
        /\ Did("wrapBlockEnter", d)
        /\ UNCHANGED <<conversionCollection, returned>>

\* fn has returned: the delimiter is restored and the block marked closed.
WrapBlockExit ==
    /\ frames # <<>>
    /\ LET top == frames[Len(frames)]
       IN  /\ Becomes(wrapBlockExit(Cur, top.prevDelim, top.node))
           /\ Did("wrapBlockExit", top.node)
    /\ frames' = SubSeq(frames, 1, Len(frames) - 1)
    /\ UNCHANGED <<conversionCollection, returned>>

\* convertBlock of a node several maps may convert.
Dispatch ==
    \E node \in {X, LB} :
        /\ Becomes(convertBlock(Cur, node, conversionCollection))
        /\ Did("convertBlock", node)
        /\ UNCHANGED <<conversionCollection, frames, returned>>

\* The text conversion, for a text leaf of any set of formats.
ConvertText ==
    \E format \in SUBSET FormatNames :
        /\ Len(inlineBuffer) < MaxLeaves
        /\ LET node == TextNode("t", <<"a">>, format)
           IN  /\ Becomes(convertBlock(Cur, node, conversionCollection))
               /\ Did("convertBlock", node)
        /\ UNCHANGED <<conversionCollection, frames, returned>>

ConvertTableCell ==
    \E node \in Cells :
        /\ MayGrow
        /\ Len(inlineBuffer) < MaxStale
        /\ Becomes(convertTableCell(Cur, node, conversionCollection))
        /\ Did("convertTableCell", node)
        /\ UNCHANGED <<conversionCollection, frames, returned>>

----------------------------------------------------------------------------
(* SpecInline: the runs of one inline region are buffered on a new object  *)
(* and reconciled into its empty result.                                   *)

InitNew ==
    /\ result = <<>>
    /\ delim = <<>>
    /\ closed = false
    /\ stopNewline = FALSE
    /\ inlineBuffer = <<>>
    /\ frames = <<>>
    /\ returned = <<>>
    /\ op = [name |-> "new", arg |-> <<>>, after |-> "new"]
    /\ pre = NewState

InitInline == InitNew /\ conversionCollection = <<>>

NextInline ==
    \/ result = <<>> /\ WriteInline
    \/ result = <<>> /\ FlushInline

SpecInline == InitInline /\ [][NextInline]_vars

----------------------------------------------------------------------------
(* Spec: the write and flush primitives, called in any order on a new      *)
(* object.                                                                 *)

Init == InitNew /\ conversionCollection = <<defaultMarkdownConversionMap>>

Next ==
    \/ EnsureNewLine
    \/ FlushClose
    \/ Write
    \/ CloseBlock
    \/ Close
    \/ SetStopNewline
    \/ SetDelim

Spec == Init /\ [][Next]_vars

----------------------------------------------------------------------------
(* SpecConvert: the built-in conversions, with the primitives around them  *)
(* that a table cell or a caller uses, on a new object.                    *)

NextConvert ==
    \/ ConvertBlock
    \/ ConvertTableCell
    \/ SetStopNewline
    \/ FlushClose
    \/ Write
    \/ CloseBlock

SpecConvert == Init /\ [][NextConvert]_vars

----------------------------------------------------------------------------
(* SpecWrap: wrapBlock calls, nested up to MaxDepth, whose fn writes,      *)
(* ends lines and closes blocks.                                           *)

NextWrap ==
    \/ WrapBlockEnter
    \/ WrapBlockExit
    \/ WriteBelow(MaxWrapped)
    \/ EnsureNewLineBelow(MaxWrapped)
    \/ CloseBlockOf({P1})

SpecWrap == Init /\ [][NextWrap]_vars

----------------------------------------------------------------------------
(* SpecDispatch: createGenerateMarkdownFromNode registers up to MaxMaps     *)
(* extension maps after the built-in one; nodes are dispatched on the new  *)
(* object while its result is empty.                                       *)

Registrations == UNION {[1..n -> ExtensionMaps] : n \in 0..MaxMaps}

InitDispatch ==
    /\ InitNew
    /\ \E maps \in Registrations :
          conversionCollection = createGenerateMarkdownFromNode(maps)

NextDispatch == result = <<>> /\ Dispatch

SpecDispatch == InitDispatch /\ [][NextDispatch]_vars

----------------------------------------------------------------------------
(* SpecText: the text conversion of the leaves of one inline region, on a  *)
(* new object, and the flush of the region into its empty result.          *)

NextText ==
    \/ result = <<>> /\ ConvertText
    \/ result = <<>> /\ FlushInline

SpecText == Init /\ [][NextText]_vars

----------------------------------------------------------------------------
(* SpecUnconverted: nodes are dispatched on an object in use, whose maps   *)
(* are the built-in one and at most one extension map that may decline.    *)

\* An extension map for the type x that declines, one that converts it,
\* and one for another type.
DecliningMaps ==
    {[x |-> [factory |-> "extension", returns |-> null]],
     [x |-> [factory |-> "extension",
             returns |-> [conversion |-> "mark", mark |-> "A"]]],
     [linebreak |-> [factory |-> "extension",
                     returns |-> [conversion |-> "mark", mark |-> "A"]]]}

InitUnconverted ==
    /\ InitNew
    /\ \E maps \in {<<>>} \cup {<<m>> : m \in DecliningMaps} :
          conversionCollection = createGenerateMarkdownFromNode(maps)

NextUnconverted ==
    \/ MayGrow /\ Dispatch
    \/ ConvertBlock
    \/ SetStopNewline
    \/ SetDelim

SpecUnconverted == InitUnconverted /\ [][NextUnconverted]_vars

----------------------------------------------------------------------------
(* SpecRegion: convertInline is called on an object in use, with runs left *)
(* in its inline buffer.                                                   *)

\* A paragraph of one bold text.
PB == Node("pb", "paragraph", <<TB>>)

\* A paragraph of two texts around a tab.
PT == Node("pt", "paragraph", <<TA, TAB, TB>>)

\* The parents of an inline region: paragraphs, and a text leaf itself.
Regions == {P1, PB, P2, PT, TB}

ConvertInline ==
    \E parent \in Regions :
        /\ MayGrow
        /\ Becomes(convertInline(Cur, parent, conversionCollection))
        /\ Did("convertInline", parent)
        /\ UNCHANGED <<conversionCollection, frames, returned>>

NextRegion ==
    \/ Len(inlineBuffer) < MaxStale /\ MayGrow /\ WriteInline
    \/ ConvertInline
    \/ Write
    \/ CloseBlockOf({P1})

SpecRegion == Init /\ [][NextRegion]_vars

----------------------------------------------------------------------------
(* SpecLink: runs are buffered and links are converted, on a new object    *)
(* whose maps have the entry for links.                                    *)

TI == TextNode("ti", <<"i">>, {"italic"})

\* Links with and without a title, of no, one or two text leaves.
Links ==
    {LinkNode("l", <<"u">>, title, children) :
        title \in {<<>>, <<"t">>},
        children \in {<<>>, <<TA>>, <<TA, TB>>, <<TB, TI>>}}

ConvertLink ==
    \E node \in Links :
        /\ MayGrow
        /\ Becomes(convertBlock(Cur, node, conversionCollection))
        /\ Did("convertBlock", node)
        /\ UNCHANGED <<conversionCollection, frames, returned>>

InitLink ==
    /\ InitNew
    /\ conversionCollection =
          <<defaultMarkdownConversionMap, linkMarkdownConversionMap>>

NextLink ==
    \/ Len(inlineBuffer) < MaxStale /\ MayGrow /\ WriteInline
    \/ ConvertLink
    \/ Write
    \/ CloseBlockOf({P1})

SpecLink == InitLink /\ [][NextLink]_vars

----------------------------------------------------------------------------
(* SpecGenerate: the function createGenerateMarkdownFromNode returns, for  *)
(* the built-in map alone or with the heading map, called on root nodes.   *)

\* A constructor that hands out the object of the call before.
MarkdownConvertorStateKept(collection) == Cur

\* new MarkdownConvertorState(conversionCollection): the fields the
\* constructor sets.
MarkdownConvertorState(collection) == NewState

\* The returned function: the state after state.convertNode(node), whose
\* result the function returns.
generateMarkdownFromNode(collection, node) ==
    LET state == MarkdownConvertorState(collection)
    IN  convertNode(state, node, collection)

Title == <<"T", "i", "t", "l", "e">>

\* A heading of level 2 with the plain text Title.
H2 == HeadingNode("h2", <<"h", "2">>, <<TextNode("tt", Title, {})>>)

\* The blocks of a root, and the nodes the function is called on: roots of
\* no, one or two blocks, and (the parameter is an ElementNode) a paragraph.
TopBlocks == {P0, P1, P2, H2}
Roots ==
    {Node("root", "root", <<>>)}
        \cup {Node("root", "root", <<b>>) : b \in TopBlocks}
        \cup {Node("root", "root", <<b, c>>) : b \in TopBlocks, c \in TopBlocks}
        \cup {P1}

\* The maps given to createGenerateMarkdownFromNode: none, or the heading
\* map.
GenerateRegistrations == {<<>>, <<headingMarkdownConversionMap>>}

Generate ==
    \E node \in Roots :
        /\ Len(returned) < MaxCalls
        /\ LET state == generateMarkdownFromNode(conversionCollection, node)
           IN  /\ Becomes(state)
               /\ returned' = Append(returned,
                                     [node |-> node, text |-> state.result])
        /\ Did("generate", node)
        /\ UNCHANGED <<conversionCollection, frames>>

InitGenerate ==
    /\ InitNew
    /\ \E maps \in GenerateRegistrations :
          conversionCollection = createGenerateMarkdownFromNode(maps)

NextGenerate == Generate

SpecGenerate == InitGenerate /\ [][NextGenerate]_vars

----------------------------------------------------------------------------
(* The reconciler's claims, stated on the pieces of the last flushInline.  *)

Flushed == op.name = "flushInline"

\* The runs the last flushInline reconciled, and the pieces it appended.
FlushedRuns == pre.inlineBuffer
Pieces == inlinePieces(FlushedRuns, 1, <<>>)

\* The place of run i's text among the pieces.
TextAt(i) ==
    CHOOSE p \in 1..Len(Pieces) : Pieces[p].kind = "text" /\ Pieces[p].run = i

\* Piece p is an open or a close tag of a format of this kind.
IsTagOf(p, type) == Pieces[p].kind # "text" /\ Pieces[p].format.type = type

RECURSIVE Balanced(_, _)
\* Reading the pieces from the left with the stack of the formats opened:
\* every close tag is the close tag of the format opened last, and no
\* format is left open at the end.
Balanced(pieces, stack) ==
    IF pieces = <<>>
    THEN stack = <<>>
    ELSE LET t == Head(pieces)
         IN  CASE t.kind = "open" ->
                    Balanced(Tail(pieces), Append(stack, t.format))
               [] t.kind = "close" ->
                    /\ stack # <<>>
                    /\ stack[Len(stack)] = t.format
                    /\ t.str = stack[Len(stack)].closeTag
                    /\ Balanced(Tail(pieces), SubSeq(stack, 1, Len(stack) - 1))
               [] OTHER -> Balanced(Tail(pieces), stack)

\* C1: for every sequence of runs, the tags flushInline emits are well
\* bracketed: every open tag has its one matching close tag later, closes
\* come in last-opened-first order, and nothing is left open after the last
\* run.  (Violated: the reconciler takes two formats of one kind with
\* different tags for the same format, and closes the first with the tag of
\* the second.)
C1_WellBracketed ==
    Flushed => Balanced(Pieces, <<>>)

\* The number of leading formats two format lists have in common, the
\* formats compared as a whole (kind, tags and htmlInline).
RECURSIVE IdenticalFrom(_, _, _)
IdenticalFrom(fs, gs, k) ==
    IF k < Len(fs) /\ k < Len(gs) /\ fs[k + 1] = gs[k + 1]
    THEN IdenticalFrom(fs, gs, k + 1)
    ELSE k

\* C2: when two consecutive runs share a leading sequence of identical
\* formats, no close tag and no open tag of a format of that shared prefix
\* is emitted between the two runs' texts; each format of the prefix is
\* opened before the first text and closed after the second, so one pair
\* spans both runs.  Two bold runs "a", "b" give "**ab**".
C2_SharedPrefixOnePair ==
    Flushed =>
        /\ \A i \in 1..(Len(FlushedRuns) - 1) :
              LET fs == FlushedRuns[i].formats
                  k == IdenticalFrom(fs, FlushedRuns[i + 1].formats, 0)
              IN  \A j \in 1..k :
                    /\ \A p \in (TextAt(i) + 1)..(TextAt(i + 1) - 1) :
                          ~IsTagOf(p, fs[j].type)
                    /\ \E p \in 1..(TextAt(i) - 1) :
                          Pieces[p].kind = "open" /\ Pieces[p].format.type = fs[j].type
                    /\ \E p \in (TextAt(i + 1) + 1)..Len(Pieces) :
                          Pieces[p].kind = "close" /\ Pieces[p].format.type = fs[j].type
        /\ (/\ Len(FlushedRuns) = 2
            /\ FlushedRuns[1].formats = <<Bold>>
            /\ FlushedRuns[2].formats = <<Bold>>)
              => result = <<"*", "*", "a", "b", "*", "*">>

\* Two bold runs were reconciled.
C2_Witness ==
    /\ Flushed
    /\ Len(FlushedRuns) = 2
    /\ FlushedRuns[1].formats = <<Bold>>
    /\ FlushedRuns[2].formats = <<Bold>>
    /\ result = <<"*", "*", "a", "b", "*", "*">>

\* Format f is carried by run i.
Carries(i, f) ==
    \E j \in 1..Len(FlushedRuns[i].formats) : FlushedRuns[i].formats[j] = f

InCommonPrefix(i, k, j, f) ==
    \A r \in i..k :
        /\ Len(FlushedRuns[r].formats) >= j
        /\ FlushedRuns[r].formats[j] = f
        /\ SubSeq(FlushedRuns[r].formats, 1, j) = SubSeq(FlushedRuns[i].formats, 1, j)

----------------------------------------------------------------------------
(* The claims about the primitives and the conversions.                    *)

\* The result with one newline after it, unless it is empty or ends with one.
WithLineEnd(r) ==
    IF r # <<>> /\ r[Len(r)] # NL THEN r \o <<NL>> ELSE r

\* C4: ensureNewLine appends exactly one newline when the result is not
\* empty and does not end with a newline, and nothing otherwise; a second
\* call right after it leaves the result unchanged, so two calls in a row
\* append one newline or none.
C4_EnsureNewLineTwice ==
    /\ op.name = "ensureNewLine" =>
            /\ result = WithLineEnd(pre.result)
            /\ Cur = [pre EXCEPT !.result = result]
    /\ (op.name = "ensureNewLine" /\ op.after = "ensureNewLine") =>
            Cur = pre

\* ensureNewLine was called twice in a row on a result that ended a line
\* only through the first call.
C4_Witness ==
    /\ op.name = "ensureNewLine"
    /\ op.after = "ensureNewLine"
    /\ Len(result) >= 2
    /\ result[Len(result)] = NL
    /\ result[Len(result) - 1] # NL
    /\ result = pre.result

\* The number of newlines of a string.
Newlines(r) == Cardinality({i \in 1..Len(r) : r[i] = NL})

\* The last call converted this node with convertBlock.
Converted(node) == op.name = "convertBlock" /\ op.arg = node

\* C8: while blank-line suppression is on, converting a paragraph does not
\* set the pending-close marker, and neither flushClose nor write (nor the
\* write inside the conversion of a paragraph without line break) appends
\* a newline; with suppression off the conversion of the same paragraph
\* leaves the marker set to that paragraph.
C8_SuppressedParagraph ==
    /\ \A node \in Blocks :
          /\ (Converted(node) /\ pre.stopNewline) =>
                /\ closed = pre.closed
                /\ stopNewline
          /\ (Converted(node) /\ pre.stopNewline /\ node \in {P0, P1}) =>
                Newlines(result) = Newlines(pre.result)
          /\ (Converted(node) /\ ~pre.stopNewline) => closed = node.key
    /\ (op.name = "flushClose" /\ pre.stopNewline) => Cur = pre
    /\ (op.name = "write" /\ pre.stopNewline) =>
          /\ Newlines(result) = Newlines(pre.result)
          /\ closed = pre.closed

\* A paragraph was converted under suppression while another block was
\* pending close: its text follows the result directly.
C8_Witness ==
    /\ Converted(P1)
    /\ pre.stopNewline
    /\ pre.closed = P2.key
    /\ pre.result # <<>>
    /\ closed = P2.key
    /\ result = pre.result \o <<"a">>

\* C9: the line-break conversion flushes the inline buffer and then calls
\* ensureNewLine: converting a paragraph of text a, line break, text b
\* appends a, then a newline, then b.  (Violated: the conversion only
\* calls ensureNewLine, while a is still in the inline buffer.)
C9_LineBreakFlushesFirst ==
    (Converted(P2) /\ pre.inlineBuffer = <<>>) =>
        \E i, j, k \in (Len(pre.result) + 1)..Len(result) :
            /\ i < j /\ j < k
            /\ result[i] = "a" /\ result[j] = NL /\ result[k] = "b"

\* The order of the formats the claim states.
ClaimedOrder == <<"bold", "italic", "strikethrough", "highlight",
                  "underline", "subscript", "superscript", "code">>

\* C10: the text conversion pushes exactly one run, whose formats are the
\* active formats of the node in the order bold, italic, strikethrough,
\* highlight, underline, subscript, superscript, code.  (Violated: the
\* conversion pushes strikethrough before italic and code before highlight.)
C10_FormatOrder ==
    (op.name = "convertBlock" /\ op.arg.type = "text") =>
        /\ Len(inlineBuffer) = Len(pre.inlineBuffer) + 1
        /\ SubSeq(inlineBuffer, 1, Len(pre.inlineBuffer)) = pre.inlineBuffer
        /\ LET run == inlineBuffer[Len(inlineBuffer)]
               active(type) == type \in op.arg.format
           IN  /\ run.text = op.arg.text
               /\ [i \in 1..Len(run.formats) |-> run.formats[i].type]
                     = SelectSeq(ClaimedOrder, active)

----------------------------------------------------------------------------
(* The claim about wrapBlock.                                              *)

RECURSIVE Lines(_)
\* The lines of a string: its parts between the newlines.
Lines(r) ==
    LET nls == {i \in 1..Len(r) : r[i] = NL}
    IN  IF nls = {}
        THEN <<r>>
        ELSE LET n == CHOOSE i \in nls : \A j \in nls : i <= j
             IN  <<SubSeq(r, 1, n - 1)>> \o Lines(SubSeq(r, n + 1, Len(r)))

HasPrefix(line, prefix) ==
    Len(line) >= Len(prefix) /\ SubSeq(line, 1, Len(prefix)) = prefix

\* A wrapBlock of delimiter "> " encloses one of delimiter "  ", both
\* without firstDelim, and fn of the inner one is running.
NestedQuoteIndent ==
    /\ Len(frames) >= 2
    /\ frames[1].delim = Quote /\ frames[1].firstDelim = <<>>
    /\ frames[2].delim = Indent /\ frames[2].firstDelim = <<>>

----------------------------------------------------------------------------
(* The claims about the dispatcher.                                        *)

\* The registered maps that have an entry for the node's type whose
\* factory returns a conversion, and the conversion of each.
Offers(node) ==
    {i \in 1..Len(conversionCollection) :
        /\ node.type \in DOMAIN conversionCollection[i]
        /\ getConversion(conversionCollection[i][node.type], node) # null}
Offered(i, node) == getConversion(conversionCollection[i][node.type], node)

\* The maps that offer a conversion of the highest priority.
Highest(node) ==
    {i \in Offers(node) :
        \A j \in Offers(node) :
            priorityOf(Offered(j, node)) <= priorityOf(Offered(i, node))}

\* The object after the conversion map i offers has been applied.
AppliedFrom(i, node) ==
    conversionFn(Offered(i, node), node, pre, conversionCollection)

\* C5: convertBlock applies a conversion of the highest priority among
\* those the registered maps return for the node's type (no priority is
\* priority 0), whatever the order of registration; a map without an entry
\* for the type or whose factory returns null changes nothing.
C5_HighestPriorityWins ==
    op.name = "convertBlock" =>
        LET node == op.arg
            offering(map) ==
                /\ node.type \in DOMAIN map
                /\ getConversion(map[node.type], node) # null
        IN  /\ Offers(node) # {} =>
                  \E i \in Highest(node) : Cur = AppliedFrom(i, node)
            /\ Cur = convertBlock(pre, node,
                                   SelectSeq(conversionCollection, offering))

\* Two extension maps convert the type x, the second with the higher
\* priority: the second one was applied.
C5_Witness ==
    /\ Converted(X)
    /\ Len(conversionCollection) = 3
    /\ \E i, j \in 2..3 :
          /\ i < j
          /\ "x" \in DOMAIN conversionCollection[i]
          /\ "x" \in DOMAIN conversionCollection[j]
          /\ Offered(i, X) = [conversion |-> "mark", mark |-> "A", priority |-> 1]
          /\ Offered(j, X) = [conversion |-> "mark", mark |-> "B", priority |-> 3]
    /\ result = <<"B">>

\* The least element of a non-empty set of numbers.
Least(S) == CHOOSE i \in S : \A j \in S : i <= j

\* C6: among the conversions of equal highest priority convertBlock
\* applies that of the map registered first; the built-in map being
\* registered first, the conversion of an extension replaces the built-in
\* conversion of its node type only when its priority is greater than 0.
C6_FirstRegisteredWinsTies ==
    op.name = "convertBlock" =>
        LET node == op.arg
        IN  /\ Offers(node) # {} =>
                  Cur = AppliedFrom(Least(Highest(node)), node)
            /\ conversionCollection[1] = defaultMarkdownConversionMap
            /\ (node = LB /\ Cur # AppliedFrom(1, node)) =>
                  \E i \in Offers(node) :
                      i > 1 /\ priorityOf(Offered(i, node)) > 0

\* Two extension maps convert the type x with the same priority: the one
\* registered first was applied.
C6_Witness ==
    /\ Converted(X)
    /\ Len(conversionCollection) = 3
    /\ "x" \in DOMAIN conversionCollection[2]
    /\ "x" \in DOMAIN conversionCollection[3]
    /\ Offered(2, X) = [conversion |-> "mark", mark |-> "B", priority |-> 2]
    /\ Offered(3, X) = [conversion |-> "mark", mark |-> "A", priority |-> 2]
    /\ result = <<"B">>

----------------------------------------------------------------------------
(* The claims about the built-in block conversions.                        *)

\* The runs the text conversion pushes for the text leaves of a region.
RunsOf(children) ==
    [i \in 1..Len(children) |->
        [formats |-> formatsOf(children[i]), text |-> children[i].text]]

\* The children of the node are all text leaves.
OnlyTexts(node) ==
    \A i \in 1..Len(node.children) : isTextNode(node.children[i])

\* C11: with blank-line suppression off, the conversion of an empty
\* paragraph writes the literal <br>, that of a paragraph of text leaves
\* (started with an empty inline buffer) writes the reconciled text of its
\* leaves, and in both cases the pending-close marker is left set to the
\* paragraph.
C11_ParagraphConversion ==
    \A node \in Blocks :
        (Converted(node) /\ ~pre.stopNewline) =>
            /\ closed = node.key
            /\ node.children = <<>> =>
                  result = write(pre, <<"<", "b", "r", ">">>).result
            /\ (node.children # <<>> /\ OnlyTexts(node)
                    /\ pre.inlineBuffer = <<>>) =>
                  /\ result = write(pre, inlineResult(RunsOf(node.children))).result
                  /\ inlineBuffer = <<>>

\* An empty paragraph was converted after a paragraph of one text, with
\* suppression off: <br> stands one blank line below the text.
C11_Witness ==
    /\ Converted(P0)
    /\ ~pre.stopNewline
    /\ pre.closed = P1.key
    /\ pre.result = <<"a">>
    /\ result = <<"a", NL, NL, "<", "b", "r", ">">>
    /\ closed = P0.key

\* The last call of the generated function was made on the root of this
\* one block.
GeneratedOne(block) ==
    op.name = "generate" /\ op.arg.children = <<block>>

\* C12: converting a heading of level N through the function returned by
\* createGenerateMarkdownFromNode() writes N # characters and a space, then
\* the reconciled inline content of the heading, and leaves the
\* pending-close marker set to the heading: the heading of level 2 with
\* the text Title, alone under the root, yields ## Title.  (Violated: the
\* built-in map has no entry for headings.)
C12_HeadingGenerated ==
    GeneratedOne(H2) =>
        /\ result = repeat("#", headingLevel(H2)) \o <<SP>> \o Title
        /\ closed = H2.key

\* The same, when the heading map is one of the registered maps.
C12_HeadingRegistered ==
    (/\ GeneratedOne(H2)
     /\ \E i \in 1..Len(conversionCollection) :
            conversionCollection[i] = headingMarkdownConversionMap) =>
        /\ result = <<"#", "#", SP>> \o Title
        /\ closed = H2.key

\* The text getInlineText reconciles from these runs alone.
Reconciled(runs) == getInlineText([NewState EXCEPT !.inlineBuffer = runs])

\* C13: the link conversion writes the runs buffered before the link to
\* the result (reconciled by themselves) before the link, reconciles only
\* the children of the link into the link text, writes [text](url), or
\* [text](url "title") when the link has a title, and leaves the inline
\* buffer empty.
C13_LinkConversion ==
    \A node \in Links :
        Converted(node) =>
            LET before == write(pre, Reconciled(pre.inlineBuffer))
                text == Reconciled(RunsOf(node.children))
                link == IF node.title # <<>>
                        THEN <<"[">> \o text \o <<"]", "(">> \o node.url
                                \o <<SP, "\"">> \o node.title \o <<"\"", ")">>
                        ELSE <<"[">> \o text \o <<"]", "(">> \o node.url
                                \o <<")">>
            IN  /\ result = write(before, link).result
                /\ SubSeq(result, Len(result) - Len(link) + 1, Len(result)) = link
                /\ inlineBuffer = <<>>

\* A titled link of a plain and a bold text was converted while a bold run
\* was buffered: the run is written, closed, before the link.
C13_Witness ==
    /\ Converted(LinkNode("l", <<"u">>, <<"t">>, <<TA, TB>>))
    /\ pre.inlineBuffer = <<[text |-> <<"a">>, formats |-> <<Bold>>]>>
    /\ pre.result = <<>>
    /\ result = <<"*", "*", "a", "*", "*",
                  "[", "a", "*", "*", "b", "*", "*", "]", "(", "u", SP, "\"",
                  "t", "\"", ")">>

----------------------------------------------------------------------------
(* The claims about the dispatcher and the generated function.             *)

\* C14: convertBlock of a node for which no registered map yields a
\* conversion (no map has an entry for its type, or every factory returns
\* null) changes nothing: result, delimiter, pending-close marker,
\* suppression flag and inline buffer are as they were.
C14_NoConversionNoChange ==
    (op.name = "convertBlock" /\ Offers(op.arg) = {}) =>
        /\ result = pre.result
        /\ delim = pre.delim
        /\ closed = pre.closed
        /\ stopNewline = pre.stopNewline
        /\ inlineBuffer = pre.inlineBuffer

\* A node whose only factory declines was dispatched on an object with a
\* result, a delimiter, a pending close and a buffered run.
C14_Witness ==
    /\ Converted(X)
    /\ Len(conversionCollection) = 2
    /\ "x" \in DOMAIN conversionCollection[2]
    /\ getConversion(conversionCollection[2]["x"], X) = null
    /\ pre.result # <<>>
    /\ pre.delim # <<>>
    /\ pre.closed # false
    /\ pre.inlineBuffer # <<>>
    /\ Cur = pre

\* C15: every call of the generated function starts from a new, empty
\* object: two calls on the same tree return the same string, whatever
\* trees were converted by the calls before and between them.
C15_FreshStatePerCall ==
    \A i, j \in 1..Len(returned) :
        returned[i].node = returned[j].node =>
            returned[i].text = returned[j].text

\* The same tree was converted by the first and the third call, another
\* tree between them; all three calls returned text.
C15_Witness ==
    /\ Len(returned) = 3
    /\ returned[1].node = returned[3].node
    /\ returned[2].node # returned[1].node
    /\ returned[1].text # <<>>
    /\ returned[2].text # <<>>
    /\ returned[3].text = returned[1].text
    /\ result = returned[3].text

----------------------------------------------------------------------------
(* The claims about flushClose.                                            *)

\* C16: after any call of flushClose(size), whether or not it appended
\* anything and also when blank-line suppression is on, the pending-close
\* marker is false.  (Violated: under suppression flushClose returns
\* before it clears the marker.)
C16_FlushCloseClears ==
    op.name = "flushClose" => closed = false

\* The delimiter without the whitespace at its end.
Trimmed(d) ==
    LET keeps == {n \in 0..Len(d) :
                    /\ \A i \in (n + 1)..Len(d) : d[i] \in {SP, NL, "\t"}
                    /\ n > 0 => d[n] \notin {SP, NL, "\t"}}
    IN  SubSeq(d, 1, CHOOSE n \in keeps : TRUE)

\* size-1 lines, each the trimmed delimiter and a newline.
SeparatorLines(d, size) ==
    Concat([i \in 1..(size - 1) |-> Trimmed(d) \o <<NL>>])

\* A block close is pending and blank-line suppression is off.
Fires(s) == s.closed # false /\ ~s.stopNewline

----------------------------------------------------------------------------
(* The claim about the format equality of the reconciler.                  *)

\* Same kind, same openTag and same htmlInline.
SameFormat(f, g) ==
    f.type = g.type /\ f.openTag = g.openTag /\ f.htmlInline = g.htmlInline

RECURSIVE SameFormatFrom(_, _, _)
\* The length of the common leading prefix of two format lists under that
\* equality.
SameFormatFrom(fs, gs, k) ==
    IF k < Len(fs) /\ k < Len(gs) /\ SameFormat(fs[k + 1], gs[k + 1])
    THEN SameFormatFrom(fs, gs, k + 1)
    ELSE k

\* C18: the common leading prefix of consecutive runs is computed with the
\* equality same kind, same openTag, same htmlInline: between the texts of
\* two consecutive runs the formats of the first run beyond that prefix are
\* closed, last one first, each with its close tag, and the formats of the
\* second beyond it are opened, each with its own open tag; so two formats
\* of one kind with different open tags are closed and opened.  (Violated:
\* the reconciler compares kind and htmlInline only.)
C18_EqualityWithOpenTag ==
    Flushed =>
        \A i \in 1..(Len(FlushedRuns) - 1) :
            LET fs == FlushedRuns[i].formats
                gs == FlushedRuns[i + 1].formats
                k == SameFormatFrom(fs, gs, 0)
                between == SubSeq(Pieces, TextAt(i) + 1, TextAt(i + 1) - 1)
            IN  [p \in 1..Len(between) |-> between[p].str]
                    = [j \in 1..(Len(fs) - k) |-> fs[Len(fs) + 1 - j].closeTag]
                        \o [j \in 1..(Len(gs) - k) |-> gs[k + j].openTag]

----------------------------------------------------------------------------
(* The claim about convertInline.                                          *)

\* The leaves of an inline region: the children of a parent that has
\* children, the parent itself otherwise.
RegionLeaves(parent) ==
    IF isElementNode(parent) THEN parent.children ELSE <<parent>>

\* C19: convertInline flushes the inline buffer before it dispatches the
\* content of the region and again after it: the runs buffered before the
\* call are written (reconciled by themselves) before what the region
\* writes, the runs of the region are reconciled by themselves, and the
\* buffer is empty at the return.  (Violated: convertInline flushes only at
\* its end, so the runs left in the buffer are reconciled with those of the
\* region.)
C19_FlushBeforeAndAfter ==
    \A parent \in Regions :
        (/\ op.name = "convertInline"
         /\ op.arg = parent
         /\ \A i \in 1..Len(RegionLeaves(parent)) :
                RegionLeaves(parent)[i].type = "text") =>
            LET before == write(pre, inlineResult(pre.inlineBuffer))
                region == inlineResult(RunsOf(RegionLeaves(parent)))
            IN  /\ result = write(before, region).result
                /\ inlineBuffer = <<>>

----------------------------------------------------------------------------
(* The claim about the blank line between sibling blocks.                  *)

\* The text of a block of text leaves: the reconciled text of its leaves,
\* after the # characters and the space for a heading.
BlockText(block) ==
    IF isHeadingNode(block)
    THEN [i \in 1..headingLevel(block) |-> "#"] \o <<SP>>
            \o inlineResult(RunsOf(block.children))
    ELSE inlineResult(RunsOf(block.children))

\* The generated function was last called on a root of two non-empty
\* paragraphs or headings of text leaves.
GeneratedTwo(b, c) ==
    /\ op.name = "generate"
    /\ op.arg.children = <<b, c>>
    /\ \A block \in {b, c} :
          /\ isParagraphNode(block) \/ isHeadingNode(block)
          /\ block.children # <<>>
          /\ OnlyTexts(block)

\* C20: for a root of two non-empty paragraphs or headings, with an empty
\* delimiter and suppression off, the returned text is the text of the
\* first block, one empty line (two newlines), and the text of the second,
\* with no newline before the first block and none after the last.
\* (Violated for a heading: the built-in map does not convert it.)
C20_BlocksJoinedByBlankLine ==
    \A b \in TopBlocks, c \in TopBlocks :
        GeneratedTwo(b, c) =>
            /\ result = BlockText(b) \o <<NL, NL>> \o BlockText(c)
            /\ result[1] # NL
            /\ result[Len(result)] # NL

\* The same, for the blocks the registered maps convert: paragraphs, and
\* headings when the heading map is registered.
C20_ConvertedBlocksJoined ==
    \A b \in TopBlocks, c \in TopBlocks :
        (/\ GeneratedTwo(b, c)
         /\ \A block \in {b, c} :
               findConversion(conversionCollection, 1, block, null) # null) =>
            /\ result = BlockText(b) \o <<NL, NL>> \o BlockText(c)
            /\ result[1] # NL
            /\ result[Len(result)] # NL

----------------------------------------------------------------------------
(* The claims about the order and the completeness of the output.          *)

\* C21: within one inline region the contributions of the children appear
\* in the result in child order: for the children text a, tab, bold text b,
\* converted with an empty buffer, what is appended holds a, then the four
\* spaces of the tab, then b.  (Violated: the tab conversion writes its
\* spaces at once, while a is still in the inline buffer.)
C21_ChildOrder ==
    (op.name = "convertInline" /\ op.arg = PT /\ pre.inlineBuffer = <<>>) =>
        \E i, j, k \in (Len(pre.result) + 1)..Len(result) :
            /\ i < j /\ j + 3 < k
            /\ result[i] = "a"
            /\ \A n \in j..(j + 3) : result[n] = SP
            /\ result[k] = "b"

RECURSIVE VisitedTexts(_)
\* The texts of the text leaves that dispatching this node visits: the
\* node's own text for a text leaf, those of its children for a node the
\* registered maps convert.
VisitedTexts(node) ==
    IF findConversion(conversionCollection, 1, node, null) = null
    THEN {}
    ELSE IF node.type = "text"
    THEN {node.text}
    ELSE UNION {VisitedTexts(node.children[i]) : i \in 1..Len(node.children)}

\* The texts visited by the generated function called on this node.
GeneratedTexts(node) ==
    UNION {VisitedTexts(node.children[i]) : i \in 1..Len(node.children)}

\* The text t appears in the string r.
Contains(r, t) ==
    \E i \in 1..(Len(r) - Len(t) + 1) : SubSeq(r, i, i + Len(t) - 1) = t

\* C22 as stated: when the generated function returns, the inline buffer
\* is empty and the text of every text leaf visited appears in the
\* returned string, for every node the function is called on.
C22_EveryRunWritten ==
    op.name = "generate" =>
        /\ inlineBuffer = <<>>
        /\ \A t \in GeneratedTexts(op.arg) : Contains(result, t)

\* C22, amended: the same, when the children of the node the function is
\* called on are blocks (convertNode does not flush; the inline content is
\* flushed by the convertInline of the block that holds it).
C22_EveryRunOfBlocksWritten ==
    (/\ op.name = "generate"
     /\ \A i \in 1..Len(op.arg.children) :
            isBlockElementNode(op.arg.children[i])) =>
        /\ inlineBuffer = <<>>
        /\ \A t \in GeneratedTexts(op.arg) : Contains(result, t)
        /\ result = returned[Len(returned)].text

\* The function was called on a root of a paragraph with a line break and
\* a heading the maps convert: the three texts are in the returned string.
C22_Witness ==
    /\ op.name = "generate"
    /\ op.arg.children = <<P2, H2>>
    /\ GeneratedTexts(op.arg) = {<<"a">>, <<"b">>, Title}
    /\ inlineBuffer = <<>>
    /\ returned[Len(returned)].text
          = <<"a", "*", "*", "b", "*", "*", NL, NL, "#", "#", SP>> \o Title

----------------------------------------------------------------------------
(* The claim about the traversal.                                          *)

\* The paths of the nodes the last conversion dispatched, in order.
Dispatched ==
    CASE op.name = "convertBlock" ->
            dispatchedBy(op.arg, <<>>, conversionCollection)
      [] op.name = "convertTableCell" ->
            cellDispatched(op.arg, 1, conversionCollection)
      [] OTHER -> <<>>

RECURSIVE IsPathOf(_, _)
\* The path leads to a node of the tree.
IsPathOf(path, node) ==
    IF path = <<>>
    THEN TRUE
    ELSE /\ Head(path) \in 1..Len(node.children)
         /\ IsPathOf(Tail(path), node.children[Head(path)])

RECURSIVE Size(_)
\* The number of nodes of a tree.
Size(node) ==
    LET sizes == [i \in 1..Len(node.children) |-> Size(node.children[i])]
        sum[i \in 0..Len(sizes)] == IF i = 0 THEN 0 ELSE sum[i - 1] + sizes[i]
    IN  1 + sum[Len(sizes)]

\* C23: for a finite tree and the built-in conversions, a conversion
\* terminates and dispatches each node at most once (the dispatches are
\* nodes of the tree, no node twice, so no more of them than nodes), also
\* when convertInline is given a node without children and dispatches that
\* node itself.
C23_EachNodeAtMostOnce ==
    op.name \in {"convertBlock", "convertTableCell"} =>
        /\ \A i \in 1..Len(Dispatched) : IsPathOf(Dispatched[i], op.arg)
        /\ \A i, j \in 1..Len(Dispatched) :
              Dispatched[i] = Dispatched[j] => i = j
        /\ Len(Dispatched) <= Size(op.arg)

\* A table cell of a paragraph and a text was converted: the paragraph and
\* its three children were dispatched once each, and the text, which
\* convertInline was given, once.
C23_Witness ==
    /\ op.name = "convertTableCell"
    /\ op.arg.children = <<P2, TA>>
    /\ Dispatched = << <<1>>, <<1, 1>>, <<1, 2>>, <<1, 3>>, <<2>> >>
    /\ result = <<"a", "*", "*", "b", "*", "*", "a">>

====
